---- MODULE Spec2Model ----
(***************************************************************************)
(* Model of github-second-brain: the ingestion cache of process_repo.py    *)
(* (processed index, digest files, retrieval facade) and the tree builder  *)
(* and renderer of mcp/tools/fetch_directory_tree.py.                      *)
(*                                                                         *)
(* Text is a sequence of one-character strings.  A longer string inside a  *)
(* text is an opaque word that the code never looks into (a fixed message, *)
(* the text of an exception).                                              *)
(***************************************************************************)
EXTENDS Integers, Sequences, FiniteSets, TLC

\* ------------------------------------------------------------------------
\* Bounds of the model
\* ------------------------------------------------------------------------
MaxCalls == 2
MaxEntries == 3
MaxTail == 3

\* ------------------------------------------------------------------------
\* Text primitives (Python str methods used by the code)
\* ------------------------------------------------------------------------
Min(a, b) == IF a <= b THEN a ELSE b

\* s[n:]
DropFirst(s, n) == SubSeq(s, n + 1, Len(s))

\* s[:n]
TakeFirst(s, n) == SubSeq(s, 1, Min(n, Len(s)))

\* s.startswith(pre)
StartsWith(s, pre) == Len(s) >= Len(pre) /\ SubSeq(s, 1, Len(pre)) = pre

\* s.endswith(suf)
EndsWith(s, suf) ==
    Len(s) >= Len(suf) /\ SubSeq(s, Len(s) - Len(suf) + 1, Len(s)) = suf

\* s.find(sub): 0-based index of the first occurrence, -1 when there is none
Find(s, sub) ==
    LET hits == {i \in 1..(Len(s) - Len(sub) + 1) :
                    SubSeq(s, i, i + Len(sub) - 1) = sub}
    IN IF hits = {} THEN -1
       ELSE (CHOOSE i \in hits : \A j \in hits : i <= j) - 1

\* sub in s
Contains(s, sub) == Find(s, sub) # -1

\* s.split(sep) for a one-character separator
RECURSIVE Split(_, _)
Split(s, sep) ==
    LET i == Find(s, <<sep>>)
    IN IF i = -1 THEN <<s>>
       ELSE <<SubSeq(s, 1, i)>> \o Split(DropFirst(s, i + 1), sep)

\* sep.join(parts)
RECURSIVE Join(_, _)
Join(parts, sep) ==
    IF Len(parts) = 0 THEN <<>>
    ELSE IF Len(parts) = 1 THEN parts[1]
    ELSE parts[1] \o sep \o Join(Tail(parts), sep)

Whitespace == {" ", "\n", "\t"}

\* s.strip()
RECURSIVE LStrip(_)
LStrip(s) == IF s # <<>> /\ Head(s) \in Whitespace THEN LStrip(Tail(s)) ELSE s

RECURSIVE RStrip(_)
RStrip(s) ==
    IF s # <<>> /\ s[Len(s)] \in Whitespace
    THEN RStrip(SubSeq(s, 1, Len(s) - 1)) ELSE s

Strip(s) == LStrip(RStrip(s))

\* ------------------------------------------------------------------------
\* process_repo.py: constants and key derivation
\* ------------------------------------------------------------------------
OUTPUT_DIR == <<"d", "a", "t", "a">>

PrefixLen == 19

StderrLimit == 500

TxtExt == <<".", "t", "x", "t">>

JsonExt == <<".", "j", "s", "o", "n">>

GithubCom == <<"g", "i", "t", "h", "u", "b", ".", "c", "o", "m">>

HttpsGithub == <<"h", "t", "t", "p", "s", ":", "/", "/">> \o GithubCom \o <<"/">>

None == <<"None">>

\* the parts joined by an underscore
process_url_Underscore(repo_url, extension) ==
    LET path == DropFirst(repo_url, PrefixLen)
    IN Join(Split(path, "/"), <<"_">>) \o extension

process_url(repo_url, extension) ==
    LET path == DropFirst(repo_url, PrefixLen)
    IN Join(Split(path, "/"), <<"-">>) \o extension

\* os.path.join(a, b)
PathJoin(a, b) ==
    IF StartsWith(b, <<"/">>) THEN b
    ELSE IF a = <<>> \/ EndsWith(a, <<"/">>) THEN a \o b
    ELSE a \o <<"/">> \o b

process_github_url(repo_url) ==
    LET output_filename == process_url(repo_url, TxtExt)
    IN <<output_filename, PathJoin(OUTPUT_DIR, output_filename)>>

is_valid_repo(repo_url) == repo_url # <<>> /\ Contains(repo_url, GithubCom)

\* os.path.splitext(path)[0]
SplitExtRoot(path) ==
    LET seps == {i \in 1..Len(path) : path[i] = "/"}
        sepIndex == IF seps = {} THEN 0
                    ELSE CHOOSE i \in seps : \A j \in seps : j <= i
        dots == {i \in 1..Len(path) : path[i] = "."}
        dotIndex == IF dots = {} THEN 0
                    ELSE CHOOSE i \in dots : \A j \in dots : j <= i
    IN IF dotIndex > sepIndex
          /\ \E i \in (sepIndex + 1)..(dotIndex - 1) : path[i] # "."
       THEN SubSeq(path, 1, dotIndex - 1)
       ELSE path

\* len(json.dumps(data, indent=4)) for a dict whose values are all None
RECURSIVE SumLen(_)
SumLen(keys) ==
    IF keys = {} THEN 0
    ELSE LET k == CHOOSE x \in keys : TRUE
         IN Len(k) + 12 + SumLen(keys \ {k})

JsonLen(keys) ==
    IF keys = {} THEN 2 ELSE 4 + SumLen(keys) + 2 * (Cardinality(keys) - 1)

\* Fixed texts
MsgProcessed == <<"Repository was processed previously.">>

MsgIngested == <<"Repository ingested successfully.">>

MsgInvalid(repo_url) == <<"Invalid or non-GitHub URL provided: ">> \o repo_url

MsgToolFailed(returncode, stderr) ==
    <<"gitingest command failed (code ", ToString(returncode), "): ">>
        \o TakeFirst(stderr, StderrLimit) \o <<"...">>

MsgMkdir(e) ==
    <<"Could not create output directory '">> \o OUTPUT_DIR \o <<"': ">> \o e

MsgUnexpected(e) == <<"An unexpected error occurred during processing: ">> \o e

MsgBeingProcessed == <<"Repository is being processed">>

MsgFileNotFound == <<"File not found in this repository.">>

MsgJsonError(e) == <<"Error parsing JSON file: ">> \o e

MsgReadError(e) == <<"Error reading file: ">> \o e

SummaryHeading == <<"--- Summary ---", "\n">>

SummaryMarker == <<"Repository:">>

\* str(e) of the exceptions the code can meet
UnboundLocalError == <<"cannot access local variable 'error_msg'">>

JSONDecodeError == <<"JSONDecodeError">>

FileNotFoundError(path) == <<"No such file or directory: ">> \o path

ValueError(repo_url) == MsgInvalid(repo_url)

\* ------------------------------------------------------------------------
\* Digest text
\* ------------------------------------------------------------------------
MarkerLen == 48

marker == [i \in 1..MarkerLen |-> "="]

FilePrefix == <<"F", "i", "l", "e", ":", " ">>

\* file.readline(): the first line with its newline, "" at end of file
ReadLine(text) ==
    LET i == Find(text, <<"\n">>)
    IN IF i = -1 THEN text ELSE SubSeq(text, 1, i + 1)

\* get_directory_structure, lines 268-276: the lines before the first one
\* that holds an "="
RECURSIVE DirTreeOf(_)
DirTreeOf(text) ==
    IF text = <<>> THEN <<>>
    ELSE LET line == ReadLine(text)
         IN IF Contains(line, <<"=">>) THEN <<>>
            ELSE line \o DirTreeOf(DropFirst(text, Len(line)))

\* the synthetic key of the first block, line 193
DirectoryTreeKey ==
    <<"d", "i", "r", "e", "c", "t", "o", "r", "y", "_", "t", "r", "e", "e">>

\* number of characters dropped by next_line[6:], line 199
FilePrefixSkip == 6

\* repo_dict[key] = value
DictPut(repo_dict, key, value) ==
    [k \in (DOMAIN repo_dict) \cup {key} |->
        IF k = key THEN value ELSE repo_dict[k]]

\* the path line taken whole, prefix included
SectionPath_KeepPrefix(next_line) == Strip(next_line)

\* the path read from the line after a marker line, lines 198-201
SectionPath(next_line) ==
    IF StartsWith(next_line, FilePrefix)
    THEN Strip(DropFirst(next_line, FilePrefixSkip))
    ELSE Strip(next_line)

\* _convert_ingested_to_json, the loop of lines 183-205 over the rest of the
\* file: the mapping it ends with
RECURSIVE ParseLoop(_, _, _, _)
ParseLoop(rest, file_path, file_content, repo_dict) ==
    LET line == ReadLine(rest)
        after == DropFirst(rest, Len(line))
    IN IF line = <<>>
       THEN IF file_path # <<>> /\ Strip(file_path) # <<>>
            THEN DictPut(repo_dict, Strip(file_path), file_content)
            ELSE repo_dict
       ELSE IF StartsWith(line, marker)
       THEN LET key == IF file_path = <<>> THEN DirectoryTreeKey
                       ELSE Strip(file_path)
                next_line == ReadLine(after)
                after2 == DropFirst(after, Len(next_line))
                skipped == ReadLine(after2)
            IN ParseLoop(DropFirst(after2, Len(skipped)),
                         SectionPath(next_line), <<>>,
                         DictPut(repo_dict, key, file_content))
       ELSE ParseLoop(after, file_path, file_content \o line, repo_dict)

\* the mapping built from a digest text, lines 177-205
ParseDigest(content) == ParseLoop(content, <<>>, <<>>, <<>>)

\* ------------------------------------------------------------------------
\* fetch_directory_tree.py: tree builder and renderer
\* ------------------------------------------------------------------------
\* Code points of the characters that occur in entry names
CodePoint ==
    ("." :> 46) @@ ("B" :> 66) @@ ("a" :> 97) @@ ("b" :> 98) @@ ("t" :> 116)
        @@ ("x" :> 120) @@ ("y" :> 121) @@ ("z" :> 122)

\* Python's a < b on str
RECURSIVE StrLess(_, _)
StrLess(a, b) ==
    IF b = <<>> THEN FALSE
    ELSE IF a = <<>> THEN TRUE
    ELSE IF Head(a) = Head(b) THEN StrLess(Tail(a), Tail(b))
    ELSE CodePoint[Head(a)] < CodePoint[Head(b)]

\* the names in descending order
RECURSIVE Sorted_Descending(_)
Sorted_Descending(names) ==
    IF names = {} THEN <<>>
    ELSE LET most == CHOOSE n \in names : \A m \in names \ {n} : StrLess(m, n)
         IN <<most>> \o Sorted_Descending(names \ {most})

\* sorted(names)
RECURSIVE Sorted(_)
Sorted(names) ==
    IF names = {} THEN <<>>
    ELSE LET least == CHOOSE n \in names : \A m \in names \ {n} : StrLess(n, m)
         IN <<least>> \o Sorted(names \ {least})

\* dict.get(key, default) on an entry or a node
ItemGet(item, key, default) ==
    IF key \in DOMAIN item THEN item[key] ELSE default

EmptyDict == <<>>

\* one iteration of the outer loop of _build_hierarchical_tree (lines 14-38)
\* from part i of the path on: the new value of current_level
RECURSIVE InsertParts(_, _, _, _)
InsertParts(current_level, path_parts, i, item) ==
    IF i > Len(path_parts) THEN current_level
    ELSE LET part == path_parts[i]
             is_last_part == (i = Len(path_parts))
         IN IF part = <<>>
            THEN InsertParts(current_level, path_parts, i + 1, item)
            ELSE IF is_last_part
            THEN (part :> [_type |-> ItemGet(item, "type", "blob")])
                     @@ current_level
            ELSE LET fresh == [_type |-> "tree", children |-> EmptyDict]
                     typed == IF part \notin DOMAIN current_level THEN fresh
                              ELSE IF "_type" \notin DOMAIN current_level[part]
                                      \/ current_level[part]._type
                                            \notin {"tree", "dir"}
                              THEN fresh
                              ELSE current_level[part]
                     node == IF "children" \notin DOMAIN typed
                             THEN [_type |-> typed._type, children |-> EmptyDict]
                             ELSE typed
                 IN (part :> [node EXCEPT !.children =
                                 InsertParts(node.children, path_parts, i + 1,
                                             item)])
                        @@ current_level

RECURSIVE BuildFrom(_, _)
BuildFrom(tree_root, flat_tree_list) ==
    IF flat_tree_list = <<>> THEN tree_root
    ELSE LET item == Head(flat_tree_list)
             path_parts == Split(ItemGet(item, "path", <<>>), "/")
         IN BuildFrom(InsertParts(tree_root, path_parts, 1, item),
                      Tail(flat_tree_list))

_build_hierarchical_tree(flat_tree_list) == BuildFrom(EmptyDict, flat_tree_list)

\* Box-drawing characters, named by code point
BoxUpRight == "U+2514"

BoxHorizontal == "U+2500"

BoxVertical == "U+2502"

BoxVerticalRight == "U+251C"

LastConnector == <<BoxUpRight, BoxHorizontal, BoxHorizontal, " ">>

MidConnector == <<BoxVerticalRight, BoxHorizontal, BoxHorizontal, " ">>

Indent == <<" ", " ", " ", " ">>

BarIndent == <<BoxVertical, " ", " ", " ">>

Header == <<"Directory structure:">>

EmptyNote == <<"(Repository is empty or tree data not available)">>

\* Optional[int]: NoDepth is None, <<d>> is the integer d
NoDepth == <<>>

\* _format_tree_recursively (lines 41-79): the lines it appends
RECURSIVE _format_tree_recursively(_, _, _, _)
RECURSIVE FormatItems(_, _, _, _, _, _)
_format_tree_recursively(tree_node, current_prefix, current_depth, max_depth) ==
    IF max_depth # NoDepth /\ current_depth >= max_depth[1] THEN <<>>
    ELSE FormatItems(tree_node, Sorted(DOMAIN tree_node), 1, current_prefix,
                     current_depth, max_depth)

\* the loop with four spaces under every directory, last child or not
FormatItems_PlainIndent(tree_node, sorted_item_names, i, current_prefix, current_depth, max_depth) ==
    IF i > Len(sorted_item_names) THEN <<>>
    ELSE LET name == sorted_item_names[i]
             item_data == tree_node[name]
             is_last_child == (i = Len(sorted_item_names))
             connector == IF is_last_child THEN LastConnector ELSE MidConnector
             is_directory == (ItemGet(item_data, "_type", "") = "tree")
             line == current_prefix \o connector \o name
                        \o (IF is_directory THEN <<"/">> ELSE <<>>)
             below == IF is_directory /\ "children" \in DOMAIN item_data
                         /\ DOMAIN item_data.children # {}
                      THEN _format_tree_recursively(item_data.children,
                              current_prefix \o Indent, current_depth + 1,
                              max_depth)
                      ELSE <<>>
         IN <<line>> \o below
               \o FormatItems(tree_node, sorted_item_names, i + 1,
                              current_prefix, current_depth, max_depth)

\* the loop of lines 58-79 from item i of sorted_item_names on
FormatItems(tree_node, sorted_item_names, i, current_prefix, current_depth, max_depth) ==
    IF i > Len(sorted_item_names) THEN <<>>
    ELSE LET name == sorted_item_names[i]
             item_data == tree_node[name]
             is_last_child == (i = Len(sorted_item_names))
             connector == IF is_last_child THEN LastConnector ELSE MidConnector
             is_directory == (ItemGet(item_data, "_type", "") = "tree")
             line == current_prefix \o connector \o name
                        \o (IF is_directory THEN <<"/">> ELSE <<>>)
             new_prefix == current_prefix
                              \o (IF is_last_child THEN Indent ELSE BarIndent)
             below == IF is_directory /\ "children" \in DOMAIN item_data
                         /\ DOMAIN item_data.children # {}
                      THEN _format_tree_recursively(item_data.children,
                              new_prefix, current_depth + 1, max_depth)
                      ELSE <<>>
         IN <<line>> \o below
               \o FormatItems(tree_node, sorted_item_names, i + 1,
                              current_prefix, current_depth, max_depth)

RootLine(repo_name_with_owner) == LastConnector \o repo_name_with_owner \o <<"/">>

\* the negative depth tested before the empty list
FormatLines_DepthFirst(flat_tree_list, repo_name_with_owner, max_depth) ==
    IF max_depth # NoDepth /\ max_depth[1] < 0
    THEN <<Header, RootLine(repo_name_with_owner)>>
    ELSE IF flat_tree_list = <<>>
    THEN <<Header, RootLine(repo_name_with_owner), Indent \o EmptyNote>>
    ELSE <<Header, RootLine(repo_name_with_owner)>>
            \o _format_tree_recursively(
                   _build_hierarchical_tree(flat_tree_list), Indent, 0,
                   IF max_depth # NoDepth THEN <<max_depth[1] - 1>> ELSE NoDepth)

\* the depth limit not handed on to the renderer
FormatLines_Unlimited(flat_tree_list, repo_name_with_owner, max_depth) ==
    IF flat_tree_list = <<>>
    THEN <<Header, RootLine(repo_name_with_owner), Indent \o EmptyNote>>
    ELSE <<Header, RootLine(repo_name_with_owner)>>
            \o _format_tree_recursively(_build_hierarchical_tree(flat_tree_list),
                                        Indent, 0, NoDepth)

\* format_github_tree_structure (lines 102-131): the lines that are joined
FormatLines(flat_tree_list, repo_name_with_owner, max_depth) ==
    IF flat_tree_list = <<>>
    THEN <<Header, RootLine(repo_name_with_owner), Indent \o EmptyNote>>
    ELSE LET hierarchical_tree == _build_hierarchical_tree(flat_tree_list)
             effective_max_depth_for_children ==
                 IF max_depth # NoDepth THEN <<max_depth[1] - 1>> ELSE NoDepth
         IN IF max_depth # NoDepth /\ max_depth[1] < 0
            THEN <<Header, RootLine(repo_name_with_owner)>>
            ELSE <<Header, RootLine(repo_name_with_owner)>>
                    \o _format_tree_recursively(hierarchical_tree, Indent, 0,
                           effective_max_depth_for_children)

format_github_tree_structure(flat_tree_list, repo_name_with_owner, max_depth) ==
    Join(FormatLines(flat_tree_list, repo_name_with_owner, max_depth), <<"\n">>)

\* Inputs of the tree model
RepoName == <<"o", "/", "r">>

EntryPaths ==
    {<<"x">>, <<"x", "/", "y">>, <<"x", "/", "y", "/", "z">>, <<"a">>, <<"B">>}

Entries == [path : EntryPaths, type : {"blob", "tree"}]

MaxDepthArg == 3

Depths == {NoDepth} \cup {<<d>> : d \in (-2)..MaxDepthArg}

\* the entries [b.txt, a/x.txt]
ExampleEntries ==
    <<[path |-> <<"b", ".", "t", "x", "t">>, type |-> "blob"],
      [path |-> <<"a", "/", "x", ".", "t", "x", "t">>, type |-> "blob"]>>

RECURSIVE ListsUpTo(_)
ListsUpTo(n) ==
    IF n = 0 THEN {<<>>}
    ELSE LET shorter == ListsUpTo(n - 1)
         IN shorter \cup {Append(l, e) : l \in shorter, e \in Entries}

\* ------------------------------------------------------------------------
\* Inputs of the ingestion model
\* ------------------------------------------------------------------------
UrlOR == HttpsGithub \o <<"o", "/", "r">>

UrlOQ == HttpsGithub \o <<"o", "/", "q">>

UrlBad == <<"g", "i", "t", "l", "a", "b">>

ValidUrls == {UrlOR, UrlOQ}

Urls == ValidUrls \cup {UrlBad}

FileNames == {process_github_url(u)[1] : u \in ValidUrls}

DigestPaths == {process_github_url(u)[2] : u \in ValidUrls}

JsonPaths == {SplitExtRoot(path) \o JsonExt : path \in DigestPaths}

RepoFilePaths == {<<"f">>, <<"/", "f", "/">>, <<"g">>, <<"/", "/", "f", "/">>}

\* What the external tool writes to output_path when it exits 0: a tree
\* block, then one file section (marker, "File: f", separator, content)
TreeBlock == <<"t", "\n">>

DigestText ==
    TreeBlock \o marker \o <<"\n">> \o FilePrefix \o <<"f", "\n">>
        \o <<"\n">> \o <<"c", "\n">>

PartialText == <<"t", "r">>

StdoutWithSummary == <<"l", "o", "g", " ", "Repository:", " ", "o", "\n">>

StdoutPlain == <<"l", "o", "g", "\n">>

ShortStderr == <<"b", "o", "o", "m">>

\* Outcomes of one run of the external tool: exit code, captured streams and
\* what it left at output_path ("none": nothing written)
ToolOutcomes ==
    [returncode : {0}, stdout : {StdoutWithSummary, StdoutPlain},
     stderr : {<<>>}, wrote : {"digest"}]
    \cup
    [returncode : {1}, stdout : {<<>>},
     stderr : {ShortStderr}, wrote : {"partial", "none"}]

\* ------------------------------------------------------------------------
\* State
\* ------------------------------------------------------------------------
NumProcs == 2

Procs == 1..NumProcs

VARIABLES
    dirExists,   \* os.path.exists(OUTPUT_DIR)
    index,       \* data/processed_repos.json
    digest,      \* data/<key>.txt, by path
    jsonFile,    \* data/<key>.json, by path
    pc,          \* position of each caller
    loc,         \* local variables of each caller
    ret,         \* what the last call of each caller returned or raised
    calls,       \* number of calls made so far
    toolRuns,    \* runs of the external tool, by output filename
    touched,     \* per caller: files changed or the tool started in its call
    indexTouched,  \* per caller: the index file was written during its call
    obs,         \* per caller: its last two calls and the one under way
    succeeded,   \* output filenames for which ingest_repo returned success
    ingestedUrls,  \* URLs for which ingest_repo returned success
    everIn,      \* output filenames that a completely written index has held
    racedSave,   \* some save_to_json read the index inside another's update
    flat_tree_list,     \* argument of format_github_tree_structure
    max_depth,          \* argument of format_github_tree_structure
    hierarchical_tree,  \* local of format_github_tree_structure
    text,               \* what format_github_tree_structure returned
    tpc,                \* position in format_github_tree_structure
    repo_dict,          \* what _convert_ingested_to_json returned
    cpc,                \* position in _convert_ingested_to_json
    key_urls,           \* URLs handed to process_github_url, one per call
    key_outs,           \* what the calls made so far returned
    client,             \* which copy of github_api_client.py is running
    page_num,           \* local of _fetch_all_paginated_comments
    all_comments,       \* local of _fetch_all_paginated_comments, returned
    responses,          \* the page responses received so far
    ppc                 \* position in _fetch_all_paginated_comments

fsVars == <<dirExists, index, digest, jsonFile>>

ingestVars == <<dirExists, index, digest, jsonFile, pc, loc, ret, calls,
                toolRuns, touched, indexTouched, obs, succeeded, ingestedUrls, everIn, racedSave>>

treeVars == <<flat_tree_list, max_depth, hierarchical_tree, text, tpc>>

\* what the ingestion actions leave alone, and what the tree actions do
parseVars == <<repo_dict, cpc>>

keyVars == <<key_urls, key_outs>>

pageVars == <<client, page_num, all_comments, responses, ppc>>

nonIngestVars == <<treeVars, parseVars, keyVars, pageVars>>

nonTreeVars == <<ingestVars, parseVars, keyVars, pageVars>>

vars == <<ingestVars, treeVars, parseVars, keyVars, pageVars>>

NoFile == [exists |-> FALSE, content |-> <<>>]

NoJson == [exists |-> FALSE, wellformed |-> TRUE, content |-> <<>>]

NoIndex == [st |-> "absent", keys |-> {}, len |-> 0]

NoRet == [kind |-> "none", val |-> <<>>]

NoResult == [returncode |-> 0, stdout |-> <<>>, stderr |-> <<>>]

\* Record of one call: its arguments, its result (ret), the result of the
\* ingest_repo it made or was (ing), whether it started the external tool
\* (ran) and, once the tool has ended (exited), its exit code and stderr
NoCall == [op |-> "none", repo_url |-> <<>>, repo_file_path |-> <<>>,
           ret |-> NoRet, ing |-> NoRet, ran |-> FALSE, exited |-> FALSE,
           result |-> [returncode |-> 0, stderr |-> <<>>]]

InitLoc == [op |-> "none", repo_url |-> <<>>, repo_file_path |-> <<>>,
            output_filename |-> <<>>, output_path |-> <<>>,
            result |-> NoResult, error_msg |-> <<>>, data |-> {}]

\* touched, after a step that changes a file or starts the tool
Touched == [q \in Procs |-> touched[q] \/ pc[q] # "idle"]

IngestIdle ==
    /\ dirExists = FALSE
    /\ index = NoIndex
    /\ digest = [path \in DigestPaths |-> NoFile]
    /\ jsonFile = [path \in JsonPaths |-> NoJson]
    /\ pc = [p \in Procs |-> "idle"]
    /\ loc = [p \in Procs |-> InitLoc]
    /\ ret = [p \in Procs |-> NoRet]
    /\ calls = 0
    /\ toolRuns = [f \in FileNames |-> 0]
    /\ obs = [p \in Procs |-> [prev2 |-> NoCall, prev |-> NoCall,
                               cur |-> NoCall]]
    /\ touched = [p \in Procs |-> FALSE]
    /\ indexTouched = [p \in Procs |-> FALSE]
    /\ succeeded = {}
    /\ ingestedUrls = {}
    /\ everIn = {}
    /\ racedSave = FALSE

TreeIdle ==
    /\ flat_tree_list = <<>>
    /\ max_depth = NoDepth
    /\ hierarchical_tree = EmptyDict
    /\ text = <<>>
    /\ tpc = "off"

NoDict == [kind |-> "none", val |-> <<>>]

ParseIdle ==
    /\ repo_dict = NoDict
    /\ cpc = "off"

KeyIdle ==
    /\ key_urls = <<>>
    /\ key_outs = <<>>

\* the two copies of the client module
AppClient == "src/app/internal_tools/github_api_client.py"

RootClient == "src/github_api_client.py"

PageIdle ==
    /\ client = AppClient
    /\ page_num = 1
    /\ all_comments = <<>>
    /\ responses = <<>>
    /\ ppc = "idle"

InitIngest == IngestIdle /\ TreeIdle /\ ParseIdle /\ KeyIdle /\ PageIdle

\* ------------------------------------------------------------------------
\* Returning from a call
\* ------------------------------------------------------------------------
\* The outermost call of caller p ends with result r and its locals go out
\* of scope; cur is the record of the call
Done(p, cur, r) ==
    /\ pc' = [pc EXCEPT ![p] = "idle"]
    /\ loc' = [loc EXCEPT ![p] = InitLoc]
    /\ ret' = [ret EXCEPT ![p] = r]
    /\ obs' = [obs EXCEPT ![p].prev2 = obs[p].prev,
                          ![p].prev = [cur EXCEPT !.ret = r],
                          ![p].cur = NoCall]

Tuple(v) == [kind |-> "tuple", val |-> v]

Str(v) == [kind |-> "str", val |-> v]

Raise(e) == [kind |-> "raise", val |-> e]

\* ingest_repo returns the tuple v: to its caller when called directly, to
\* get_a_file_content (line 229-230) or get_directory_structure (line 266)
\* otherwise
IngestReturn(p, v) ==
    LET cur == [obs[p].cur EXCEPT !.ing = Tuple(v)]
    IN /\ succeeded' = IF v[1] THEN succeeded \cup {loc[p].output_filename}
                       ELSE succeeded
       /\ ingestedUrls' = IF v[1] THEN ingestedUrls \cup {loc[p].repo_url}
                          ELSE ingestedUrls
       /\ CASE loc[p].op = "ingest_repo" -> Done(p, cur, Tuple(v))
            [] loc[p].op = "get_a_file_content" ->
                   Done(p, cur, Str(MsgBeingProcessed))
            [] loc[p].op = "get_directory_structure" ->
                   /\ pc' = [pc EXCEPT ![p] = "open_digest"]
                   /\ obs' = [obs EXCEPT ![p].cur = cur]
                   /\ UNCHANGED <<ret, loc>>

\* an exception leaves ingest_repo: none of its callers catches it
IngestRaise(p, e) ==
    /\ Done(p, [obs[p].cur EXCEPT !.ing = Raise(e)], Raise(e))
    /\ UNCHANGED <<succeeded, ingestedUrls>>

\* caller q has passed the is_processed_repo check of ingest_repo and has
\* not yet marked the repository
PastCheck(q) ==
    pc[q] \in {"run_gitingest", "subprocess", "returncode", "save_to_json",
               "open_w", "write"}

\* is_processed_repo looking the output path up instead of the filename
is_processed_repo_ByPath(output_filename) ==
    IF ~dirExists THEN "False"
    ELSE IF index.st = "absent" THEN "False"
    ELSE IF index.st # "ok" THEN "raise"
    ELSE IF PathJoin(OUTPUT_DIR, output_filename) \in index.keys THEN "True"
    ELSE "False"

\* is_processed_repo also answering True while a run for the key is under way
is_processed_repo_InFlight(output_filename) ==
    IF \E q \in Procs : PastCheck(q) /\ loc[q].output_filename = output_filename
    THEN "True"
    ELSE IF ~dirExists THEN "False"
    ELSE IF index.st = "absent" THEN "False"
    ELSE IF index.st # "ok" THEN "raise"
    ELSE IF output_filename \in index.keys THEN "True"
    ELSE "False"

\* a repository counts as processed once the tool has been run for it,
\* whatever the exit code
is_processed_repo_Attempted(output_filename) ==
    IF output_filename \in DOMAIN toolRuns /\ toolRuns[output_filename] > 0
    THEN "True"
    ELSE IF ~dirExists THEN "False"
    ELSE IF index.st = "absent" THEN "False"
    ELSE IF index.st # "ok" THEN "raise"
    ELSE IF output_filename \in index.keys THEN "True"
    ELSE "False"

\* is_processed_repo(output_filename): "True", "False", or "raise" when
\* json.load fails on the index file
is_processed_repo(output_filename) ==
    IF ~dirExists THEN "False"
    ELSE IF index.st = "absent" THEN "False"
    ELSE IF index.st # "ok" THEN "raise"
    ELSE IF output_filename \in index.keys THEN "True"
    ELSE "False"

\* ------------------------------------------------------------------------
\* Calls
\* ------------------------------------------------------------------------
\* A caller starts a call.  Callers are interchangeable, so they are
\* numbered by their first calls: p starts after every q < p has called.
StartCall(p, op, repo_url, repo_file_path) ==
    /\ pc[p] = "idle"
    /\ calls < MaxCalls
    /\ \A q \in Procs :
          q < p => obs[q].cur.op # "none" \/ obs[q].prev.op # "none"
    /\ pc' = [pc EXCEPT ![p] = op]
    /\ calls' = calls + 1
    /\ loc' = [loc EXCEPT ![p] = [InitLoc EXCEPT !.op = op,
                                     !.repo_url = repo_url,
                                     !.repo_file_path = repo_file_path]]
    /\ obs' = [obs EXCEPT ![p].cur = [NoCall EXCEPT !.op = op,
                                        !.repo_url = repo_url,
                                        !.repo_file_path = repo_file_path]]
    /\ UNCHANGED <<fsVars, ret, toolRuns, succeeded, ingestedUrls>>
    /\ UNCHANGED <<nonIngestVars, everIn, racedSave>>
    /\ touched' = [touched EXCEPT ![p] = FALSE]
    /\ indexTouched' = [indexTouched EXCEPT ![p] = FALSE]

CallIngestRepo(p) == \E u \in Urls : StartCall(p, "ingest_repo", u, <<>>)

CallGetAFileContent(p) ==
    \E u \in Urls, f \in RepoFilePaths : StartCall(p, "get_a_file_content", u, f)

CallGetDirectoryStructure(p) ==
    \E u \in Urls : StartCall(p, "get_directory_structure", u, <<>>)

\* ------------------------------------------------------------------------
\* ingest_repo and run_gitingest
\* ------------------------------------------------------------------------
\* ingest_repo, lines 144-148
ingest_repo(p) ==
    /\ pc[p] = "ingest_repo"
    /\ LET repo_url == loc[p].repo_url
           names == process_github_url(repo_url)
           processed == is_processed_repo(names[1])
       IN IF ~is_valid_repo(repo_url)
          THEN IngestReturn(p, <<FALSE, MsgInvalid(repo_url)>>)
          ELSE IF processed = "raise"
          THEN IngestRaise(p, JSONDecodeError)
          ELSE IF processed = "True"
          THEN IngestReturn(p, <<FALSE, MsgProcessed, names[2]>>)
          ELSE /\ loc' = [loc EXCEPT ![p].output_filename = names[1],
                                     ![p].output_path = names[2]]
               /\ pc' = [pc EXCEPT ![p] = "run_gitingest"]
               /\ UNCHANGED <<ret, obs, succeeded, ingestedUrls>>
    /\ UNCHANGED <<fsVars, calls, toolRuns>>
    /\ UNCHANGED <<nonIngestVars, everIn, racedSave>>
    /\ UNCHANGED touched
    /\ UNCHANGED indexTouched

\* run_gitingest, lines 114-118: makedirs, then the external tool starts
run_gitingest(p) ==
    /\ pc[p] = "run_gitingest"
    /\ dirExists' = TRUE
    /\ toolRuns' = [toolRuns EXCEPT ![loc[p].output_filename] = @ + 1]
    /\ obs' = [obs EXCEPT ![p].cur.ran = TRUE]
    /\ pc' = [pc EXCEPT ![p] = "subprocess"]
    /\ UNCHANGED <<index, digest, jsonFile, loc, ret, calls, succeeded, ingestedUrls>>
    /\ UNCHANGED <<nonIngestVars, everIn, racedSave>>
    /\ touched' = Touched
    /\ UNCHANGED indexTouched

\* subprocess.run, line 118: the tool ends, having written output_path or not
subprocess_run(p) ==
    /\ pc[p] = "subprocess"
    /\ \E out \in ToolOutcomes :
          /\ digest' =
                IF out.wrote = "digest"
                THEN [digest EXCEPT ![loc[p].output_path] =
                         [exists |-> TRUE, content |-> DigestText]]
                ELSE IF out.wrote = "partial"
                THEN [digest EXCEPT ![loc[p].output_path] =
                         [exists |-> TRUE, content |-> PartialText]]
                ELSE digest
          /\ touched' = IF out.wrote = "none" THEN touched ELSE Touched
          /\ loc' = [loc EXCEPT ![p].result =
                        [returncode |-> out.returncode, stdout |-> out.stdout,
                         stderr |-> out.stderr]]
          /\ obs' = [obs EXCEPT ![p].cur.exited = TRUE,
                                ![p].cur.result =
                                    [returncode |-> out.returncode,
                                     stderr |-> out.stderr]]
    /\ pc' = [pc EXCEPT ![p] = "returncode"]
    /\ UNCHANGED <<dirExists, index, jsonFile, ret, calls, toolRuns, succeeded, ingestedUrls>>
    /\ UNCHANGED <<nonIngestVars, everIn, racedSave>>
    /\ UNCHANGED indexTouched

\* line 29, summary_block.strip(), left out
write_to_file_Unstripped(result, file) ==
    LET summary_start_index == Find(result.stdout, SummaryMarker)
        summary_block == DropFirst(result.stdout, summary_start_index)
    IN IF summary_start_index # -1
       THEN [exists |-> TRUE,
             content |-> file.content \o SummaryHeading \o summary_block]
       ELSE file

\* write_to_file, lines 19-43: the new content of the file at output_path
write_to_file(result, file) ==
    LET summary_start_index == Find(result.stdout, SummaryMarker)
        summary_block == Strip(DropFirst(result.stdout, summary_start_index))
    IN IF summary_start_index # -1
       THEN [exists |-> TRUE,
             content |-> file.content \o SummaryHeading \o summary_block]
       ELSE file

\* run_gitingest, lines 120-122: exit code 0, the summary is appended
tool_succeeded(p) ==
    /\ pc[p] = "returncode"
    /\ loc[p].result.returncode = 0
    /\ digest' = [digest EXCEPT ![loc[p].output_path] =
                     write_to_file(loc[p].result, @)]
    /\ pc' = [pc EXCEPT ![p] = "save_to_json"]
    /\ UNCHANGED <<dirExists, index, jsonFile, loc, ret, calls, toolRuns, obs,
                   succeeded, ingestedUrls>>
    /\ UNCHANGED <<nonIngestVars, everIn, racedSave>>
    /\ touched' = IF Find(loc[p].result.stdout, SummaryMarker) = -1
                THEN touched ELSE Touched
    /\ UNCHANGED indexTouched

\* run_gitingest, lines 126-132 with ingest_repo line 159: exit code not 0.
\* error_msg is a local of run_gitingest; ingest_repo's own error_msg is
\* unbound at line 159, and the UnboundLocalError is caught at line 166.
tool_failed(p) ==
    /\ pc[p] = "returncode"
    /\ loc[p].result.returncode # 0
    /\ IF digest[loc[p].output_path].exists
       THEN /\ loc' = [loc EXCEPT ![p].error_msg =
                          MsgToolFailed(loc[p].result.returncode,
                                        loc[p].result.stderr)]
            /\ pc' = [pc EXCEPT ![p] = "os_remove"]
            /\ UNCHANGED <<ret, obs, succeeded, ingestedUrls>>
       ELSE IngestReturn(p, <<FALSE, MsgUnexpected(UnboundLocalError)>>)
    /\ UNCHANGED <<fsVars, calls, toolRuns>>
    /\ UNCHANGED <<nonIngestVars, everIn, racedSave>>
    /\ UNCHANGED touched
    /\ UNCHANGED indexTouched

\* the cleanup of lines 130-131 left out
os_remove_Skipped(p) ==
    /\ pc[p] = "os_remove"
    /\ IngestReturn(p, <<FALSE, MsgUnexpected(UnboundLocalError)>>)
    /\ UNCHANGED <<fsVars, calls, toolRuns, touched, indexTouched>>
    /\ UNCHANGED <<nonIngestVars, everIn, racedSave>>

\* os.remove(output_path), line 131; FileNotFoundError is an OSError and is
\* caught at line 161
os_remove(p) ==
    /\ pc[p] = "os_remove"
    /\ IF digest[loc[p].output_path].exists
       THEN /\ digest' = [digest EXCEPT ![loc[p].output_path] = NoFile]
            /\ IngestReturn(p, <<FALSE, MsgUnexpected(UnboundLocalError)>>)
       ELSE /\ UNCHANGED digest
            /\ IngestReturn(p,
                  <<FALSE, MsgMkdir(FileNotFoundError(loc[p].output_path))>>)
    /\ UNCHANGED <<dirExists, index, jsonFile, calls, toolRuns>>
    /\ UNCHANGED <<nonIngestVars, everIn, racedSave>>
    /\ touched' = IF digest[loc[p].output_path].exists THEN Touched
                ELSE touched
    /\ UNCHANGED indexTouched

\* the new entry replacing the loaded ones
AddKey_Replace(data, input_data) == {input_data}

\* data[input_data] = None, line 96
AddKey(data, input_data) == data \cup {input_data}

\* save_to_json(output_filename), lines 86-96: read the index, add the key.
\* A JSONDecodeError is caught at line 166 of ingest_repo.
save_to_json_read(p) ==
    /\ pc[p] = "save_to_json"
    /\ racedSave' = (racedSave \/ \E q \in Procs \ {p} : pc[q] \in {"open_w", "write"})
    /\ IF index.st \in {"absent", "ok"}
       THEN /\ loc' = [loc EXCEPT ![p].data =
                          AddKey(index.keys, loc[p].output_filename)]
            /\ pc' = [pc EXCEPT ![p] = "open_w"]
            /\ UNCHANGED <<ret, obs, succeeded, ingestedUrls>>
       ELSE IngestReturn(p, <<FALSE, MsgUnexpected(JSONDecodeError)>>)
    /\ UNCHANGED <<fsVars, calls, toolRuns>>
    /\ UNCHANGED <<nonIngestVars, everIn>>
    /\ UNCHANGED touched
    /\ UNCHANGED indexTouched

\* open(file_path, "w"), line 98: the file is truncated
save_to_json_open(p) ==
    /\ pc[p] = "open_w"
    /\ index' = [st |-> "truncated", keys |-> {}, len |-> 0]
    /\ pc' = [pc EXCEPT ![p] = "write"]
    /\ UNCHANGED <<dirExists, digest, jsonFile, loc, ret, calls, toolRuns, obs,
                   succeeded, ingestedUrls>>
    /\ UNCHANGED <<nonIngestVars, everIn, racedSave>>
    /\ touched' = Touched
    /\ indexTouched' = [q \in Procs |-> indexTouched[q] \/ pc[q] # "idle"]

\* The file after len(text) characters are written at offset 0 over what is
\* there: a longer text written meanwhile by another writer keeps its tail
Overwrite(file, keys) ==
    IF JsonLen(keys) >= file.len
    THEN [st |-> "ok", keys |-> keys, len |-> JsonLen(keys)]
    ELSE [st |-> "corrupt", keys |-> {}, len |-> file.len]

\* outfile.write(data), line 99, then run_gitingest returns True and
\* ingest_repo returns at line 157
save_to_json_write(p) ==
    /\ pc[p] = "write"
    /\ index' = Overwrite(index, loc[p].data)
    /\ everIn' = everIn \cup index'.keys
    /\ IngestReturn(p, <<TRUE, MsgIngested, loc[p].output_path>>)
    /\ UNCHANGED <<dirExists, digest, jsonFile, calls, toolRuns>>
    /\ UNCHANGED <<nonIngestVars, racedSave>>
    /\ touched' = Touched
    /\ indexTouched' = [q \in Procs |-> indexTouched[q] \/ pc[q] # "idle"]

\* ------------------------------------------------------------------------
\* Retrieval
\* ------------------------------------------------------------------------
\* every leading and trailing "/" removed, as repo_file_path.strip("/")
StripSlashes_All(repo_file_path) ==
    LET kept == {i \in 1..Len(repo_file_path) : repo_file_path[i] # "/"}
    IN IF kept = {} THEN <<>>
       ELSE SubSeq(repo_file_path,
                   CHOOSE i \in kept : \A j \in kept : i <= j,
                   CHOOSE i \in kept : \A j \in kept : j <= i)

\* lines 232-235
StripSlashes(repo_file_path) ==
    LET a == IF StartsWith(repo_file_path, <<"/">>)
             THEN DropFirst(repo_file_path, 1) ELSE repo_file_path
    IN IF EndsWith(a, <<"/">>) THEN SubSeq(a, 1, Len(a) - 1) ELSE a

\* get_a_file_content, lines 224-235
get_a_file_content(p) ==
    /\ pc[p] = "get_a_file_content"
    /\ LET repo_url == loc[p].repo_url
           names == process_github_url(repo_url)
           output_path == SplitExtRoot(names[2]) \o JsonExt
           processed == is_processed_repo(names[1])
       IN IF ~is_valid_repo(repo_url)
          THEN Done(p, obs[p].cur, Str(MsgInvalid(repo_url)))
          ELSE IF processed = "raise"
          THEN Done(p, obs[p].cur, Raise(JSONDecodeError))
          ELSE IF processed = "False"
          THEN /\ loc' = [loc EXCEPT ![p].output_filename = names[1],
                                     ![p].output_path = output_path]
               /\ pc' = [pc EXCEPT ![p] = "ingest_repo"]
               /\ UNCHANGED <<ret, obs>>
          ELSE /\ loc' = [loc EXCEPT ![p].output_filename = names[1],
                                     ![p].output_path = output_path,
                                     ![p].repo_file_path = StripSlashes(@)]
               /\ pc' = [pc EXCEPT ![p] = "open_json"]
               /\ UNCHANGED <<ret, obs>>
    /\ UNCHANGED <<fsVars, calls, toolRuns, succeeded, ingestedUrls>>
    /\ UNCHANGED <<nonIngestVars, everIn, racedSave>>
    /\ UNCHANGED touched
    /\ UNCHANGED indexTouched

\* data.get(key, default)
DictGet(data, key, default) == IF key \in DOMAIN data THEN data[key] ELSE default

\* get_a_file_content, lines 236-243
open_json(p) ==
    /\ pc[p] = "open_json"
    /\ LET file == jsonFile[loc[p].output_path]
       IN IF ~file.exists
          THEN Done(p, obs[p].cur,
                    Str(MsgReadError(FileNotFoundError(loc[p].output_path))))
          ELSE IF ~file.wellformed
          THEN Done(p, obs[p].cur, Str(MsgJsonError(JSONDecodeError)))
          ELSE Done(p, obs[p].cur,
                    Str(DictGet(file.content, loc[p].repo_file_path,
                                MsgFileNotFound)))
    /\ UNCHANGED <<fsVars, calls, toolRuns, succeeded, ingestedUrls>>
    /\ UNCHANGED <<nonIngestVars, everIn, racedSave>>
    /\ UNCHANGED touched
    /\ UNCHANGED indexTouched

\* get_directory_structure, lines 261-266
get_directory_structure(p) ==
    /\ pc[p] = "get_directory_structure"
    /\ LET repo_url == loc[p].repo_url
           names == process_github_url(repo_url)
           processed == is_processed_repo(names[1])
       IN IF ~is_valid_repo(repo_url)
          THEN Done(p, obs[p].cur, Raise(ValueError(repo_url)))
          ELSE IF processed = "raise"
          THEN Done(p, obs[p].cur, Raise(JSONDecodeError))
          ELSE /\ loc' = [loc EXCEPT ![p].output_filename = names[1],
                                     ![p].output_path = names[2]]
               /\ pc' = [pc EXCEPT ![p] = IF processed = "True"
                                          THEN "open_digest" ELSE "ingest_repo"]
               /\ UNCHANGED <<ret, obs>>
    /\ UNCHANGED <<fsVars, calls, toolRuns, succeeded, ingestedUrls>>
    /\ UNCHANGED <<nonIngestVars, everIn, racedSave>>
    /\ UNCHANGED touched
    /\ UNCHANGED indexTouched

\* get_directory_structure, lines 268-276
open_digest(p) ==
    /\ pc[p] = "open_digest"
    /\ LET file == digest[loc[p].output_path]
       IN IF ~file.exists
          THEN Done(p, obs[p].cur, Raise(FileNotFoundError(loc[p].output_path)))
          ELSE Done(p, obs[p].cur, Str(DirTreeOf(file.content)))
    /\ UNCHANGED <<fsVars, calls, toolRuns, succeeded, ingestedUrls>>
    /\ UNCHANGED <<nonIngestVars, everIn, racedSave>>
    /\ UNCHANGED touched
    /\ UNCHANGED indexTouched

\* ------------------------------------------------------------------------
\* Specifications
\* ------------------------------------------------------------------------
IngestStep(p) ==
    \/ CallIngestRepo(p)
    \/ ingest_repo(p)
    \/ run_gitingest(p)
    \/ subprocess_run(p)
    \/ tool_succeeded(p)
    \/ tool_failed(p)
    \/ os_remove(p)
    \/ save_to_json_read(p)
    \/ save_to_json_open(p)
    \/ save_to_json_write(p)

RetrievalStep(p) ==
    \/ CallGetAFileContent(p)
    \/ CallGetDirectoryStructure(p)
    \/ get_a_file_content(p)
    \/ open_json(p)
    \/ get_directory_structure(p)
    \/ open_digest(p)

\* one caller: calls follow one another
NextSeq == IngestStep(1) \/ RetrievalStep(1)

SpecSeq == InitIngest /\ [][NextSeq]_vars

\* a second URL of the key o-r.txt: the one-segment path "o-r"
UrlODashR == HttpsGithub \o <<"o", "-", "r">>

CallIngestRepoDashed(p) == StartCall(p, "ingest_repo", UrlODashR, <<>>)

\* one caller of ingest_repo, on URLs that start with https://github.com/
\* and on one that does not
NextAlias == CallIngestRepoDashed(1) \/ IngestStep(1)

SpecAlias == InitIngest /\ [][NextAlias]_vars

\* concurrent callers of ingest_repo
NextConc == \E p \in Procs : IngestStep(p)

SpecConc == InitIngest /\ [][NextConc]_vars

\* ------------------------------------------------------------------------
\* _convert_ingested_to_json as a function of the files it reads
\* ------------------------------------------------------------------------
\* one file section of a digest: marker line, "File: <path>" line, separator
\* line, content
Section(path, content) ==
    marker \o <<"\n">> \o FilePrefix \o path \o <<"\n", "\n">> \o content

ParsePreambles == {<<>>, <<"t", "\n">>}

ParsePaths == {<<"a">>, <<"b">>, DirectoryTreeKey, <<" ", "a">>, <<>>}

\* content blocks are whole lines
ParseContents == {<<>>, <<"c", "\n">>, <<"c", "\n", "\n", "d", "\n">>}

TwoSectionDigest(pre, p1, c1, p2, c2) == pre \o Section(p1, c1) \o Section(p2, c2)

TwoSectionDigests ==
    {TwoSectionDigest(pre, p1, c1, p2, c2) :
        pre \in ParsePreambles, p1 \in ParsePaths, c1 \in ParseContents,
        p2 \in ParsePaths, c2 \in ParseContents}

\* lines tested by line.startswith(marker), line 191: the marker itself, a
\* longer run of "=", the marker followed by other text
MarkerLikeLines == {marker, marker \o <<"=">>, marker \o <<"x">>}

\* a digest with one section "a" whose content has the line l between the
\* lines "c" and "d"
LineInSectionDigest(pre, l) ==
    pre \o Section(<<"a">>, <<"c", "\n">> \o l \o <<"\n", "d", "\n">>)

LineInSectionDigests ==
    {LineInSectionDigest(pre, l) : pre \in ParsePreambles, l \in MarkerLikeLines}

\* the digest file handed to _convert_ingested_to_json: absent, or a text
DigestInputs ==
    {NoFile}
    \cup {[exists |-> TRUE, content |-> d] :
             d \in TwoSectionDigests \cup LineInSectionDigests}

MalformedJson == [exists |-> TRUE, wellformed |-> FALSE, content |-> <<>>]

\* the sibling .json file before the call: absent, malformed, or an older
\* mapping
SiblingInputs ==
    {NoJson, MalformedJson,
     [exists |-> TRUE, wellformed |-> TRUE, content |-> (<<"g">> :> <<"o">>)]}

\* the argument output_path and the sibling path of line 208
ConvertPath == process_github_url(UrlOR)[2]

ConvertJsonPath == SplitExtRoot(ConvertPath) \o JsonExt

InitParse ==
    /\ dirExists = TRUE
    /\ index = NoIndex
    /\ \E d \in DigestInputs :
          digest = [path \in DigestPaths |->
                       IF path = ConvertPath THEN d ELSE NoFile]
    /\ \E j \in SiblingInputs :
          jsonFile = [path \in JsonPaths |->
                         IF path = ConvertJsonPath THEN j ELSE NoJson]
    /\ pc = [p \in Procs |-> "idle"]
    /\ loc = [p \in Procs |-> InitLoc]
    /\ ret = [p \in Procs |-> NoRet]
    /\ calls = 0
    /\ toolRuns = [f \in FileNames |-> 0]
    /\ obs = [p \in Procs |-> [prev2 |-> NoCall, prev |-> NoCall,
                               cur |-> NoCall]]
    /\ touched = [p \in Procs |-> FALSE]
    /\ indexTouched = [p \in Procs |-> FALSE]
    /\ succeeded = {}
    /\ ingestedUrls = {}
    /\ everIn = {}
    /\ racedSave = FALSE
    /\ TreeIdle
    /\ KeyIdle
    /\ PageIdle
    /\ repo_dict = NoDict
    /\ cpc = "start"

\* _convert_ingested_to_json(output_path), lines 176-218, with the
\* save_to_json of a dict, lines 86-93
_convert_ingested_to_json ==
    /\ cpc = "start"
    /\ IF ~digest[ConvertPath].exists
       THEN /\ repo_dict' = [kind |-> "None", val |-> <<>>]
            /\ UNCHANGED jsonFile
       ELSE IF jsonFile[ConvertJsonPath].exists
               /\ ~jsonFile[ConvertJsonPath].wellformed
       THEN /\ repo_dict' = [kind |-> "None", val |-> <<>>]
            /\ UNCHANGED jsonFile
       ELSE LET parsed == ParseDigest(digest[ConvertPath].content)
            IN /\ jsonFile' = [jsonFile EXCEPT ![ConvertJsonPath] =
                                 [exists |-> TRUE, wellformed |-> TRUE,
                                  content |-> parsed]]
               /\ repo_dict' = [kind |-> "dict", val |-> parsed]
    /\ cpc' = "done"
    /\ UNCHANGED <<dirExists, index, digest, pc, loc, ret, calls, toolRuns,
                   touched, indexTouched, obs, succeeded, ingestedUrls, everIn, racedSave>>
    /\ UNCHANGED <<treeVars, keyVars, pageVars>>

NextParse == _convert_ingested_to_json

SpecParse == InitParse /\ [][NextParse]_vars

\* C11 as stated: digest parsing.  For a digest made of a preamble and two
\* sections (marker line, "File: <path>" line, separator line, content
\* lines) with two distinct paths, read with no malformed sibling file in
\* the way, _convert_ingested_to_json returns a mapping with exactly three
\* keys: "directory_tree" mapped to the preamble and each path to its
\* content.
C11_TwoSectionsParse ==
    \A pre \in ParsePreambles, p1 \in ParsePaths, c1 \in ParseContents,
       p2 \in ParsePaths, c2 \in ParseContents :
        (/\ cpc = "done"
         /\ p1 # p2
         /\ digest[ConvertPath] =
               [exists |-> TRUE,
                content |-> TwoSectionDigest(pre, p1, c1, p2, c2)]
         /\ jsonFile[ConvertJsonPath].wellformed)
        => /\ repo_dict.kind = "dict"
           /\ DOMAIN repo_dict.val = {DirectoryTreeKey, p1, p2}
           /\ Cardinality(DOMAIN repo_dict.val) = 3
           /\ repo_dict.val[DirectoryTreeKey] = pre
           /\ repo_dict.val[p1] = c1
           /\ repo_dict.val[p2] = c2

\* a path that line 199 and line 193 keep as it is and that is not the
\* synthetic key
PlainPath(path) ==
    path # <<>> /\ Strip(path) = path /\ path # DirectoryTreeKey

\* C11 amended: the same, for two distinct paths that are not empty, carry
\* no leading or trailing whitespace and are not "directory_tree": the
\* mapping returned has exactly the three keys "directory_tree", path 1 and
\* path 2, mapped to the preamble and to each section's content.
C11_TwoPlainSectionsParse ==
    \A pre \in ParsePreambles, p1 \in ParsePaths, c1 \in ParseContents,
       p2 \in ParsePaths, c2 \in ParseContents :
        (/\ cpc = "done"
         /\ p1 # p2
         /\ PlainPath(p1)
         /\ PlainPath(p2)
         /\ digest[ConvertPath] =
               [exists |-> TRUE,
                content |-> TwoSectionDigest(pre, p1, c1, p2, c2)]
         /\ jsonFile[ConvertJsonPath].wellformed)
        => /\ repo_dict.kind = "dict"
           /\ DOMAIN repo_dict.val = {DirectoryTreeKey, p1, p2}
           /\ Cardinality(DOMAIN repo_dict.val) = 3
           /\ repo_dict.val[DirectoryTreeKey] = pre
           /\ repo_dict.val[p1] = c1
           /\ repo_dict.val[p2] = c2

C11_Witness ==
    /\ cpc = "done"
    /\ digest[ConvertPath].content =
          TwoSectionDigest(<<"t", "\n">>, <<"a">>, <<"c", "\n">>, <<"b">>,
                           <<"c", "\n", "\n", "d", "\n">>)
    /\ repo_dict.kind = "dict"
    /\ Cardinality(DOMAIN repo_dict.val) = 3

\* the mapping a digest with the line l inside section "a" gives when l is
\* kept as content
LineKept(pre, l) ==
    (DirectoryTreeKey :> pre)
        @@ (<<"a">> :> (<<"c", "\n">> \o l \o <<"\n", "d", "\n">>))

\* C21: section boundaries.  A line of a digest is treated as a section
\* boundary if and only if it is exactly the marker (48 "="): a content
\* line that is a longer run of "=" or the marker followed by other text is
\* kept as content of its section, and the marker line itself ends the
\* section.
C21_BoundaryIffExactMarker ==
    \A pre \in ParsePreambles, l \in MarkerLikeLines :
        (/\ cpc = "done"
         /\ digest[ConvertPath] =
               [exists |-> TRUE, content |-> LineInSectionDigest(pre, l)]
         /\ jsonFile[ConvertJsonPath].wellformed)
        => /\ repo_dict.kind = "dict"
           /\ (l # marker) <=> (repo_dict.val = LineKept(pre, l))
           /\ (l = marker) <=> (repo_dict.val[<<"a">>] = <<"c", "\n">>)

\* ------------------------------------------------------------------------
\* process_github_url as a function of the URL
\* ------------------------------------------------------------------------
TailChars == {"a", "-", "/"}

RECURSIVE TextsUpTo(_)
TextsUpTo(n) ==
    IF n = 0 THEN {<<>>}
    ELSE LET shorter == TextsUpTo(n - 1)
         IN shorter \cup {Append(t, c) : t \in shorter, c \in TailChars}

HttpGithub == <<"h", "t", "t", "p", ":", "/", "/">> \o GithubCom \o <<"/">>

UrlFooBar == HttpsGithub \o <<"f", "o", "o", "/", "b", "a", "r">>

\* URLs under https://github.com/, the one of the example, URLs with a
\* shorter prefix, and texts shorter than the prefix
KeyUrls ==
    {HttpsGithub \o t : t \in TextsUpTo(MaxTail)}
        \cup {UrlFooBar, UrlBad, <<>>}
        \cup {HttpGithub \o t : t \in {<<"a", "/", "a">>, <<"/", "a">>}}

InitKey ==
    /\ IngestIdle
    /\ TreeIdle
    /\ ParseIdle
    /\ PageIdle
    /\ key_urls \in KeyUrls \X KeyUrls
    /\ key_outs = <<>>

\* one call of process_github_url, lines 75-76, on the next URL
process_github_url_call ==
    /\ Len(key_outs) < Len(key_urls)
    /\ key_outs' = Append(key_outs,
                          process_github_url(key_urls[Len(key_outs) + 1]))
    /\ UNCHANGED key_urls
    /\ UNCHANGED <<ingestVars, treeVars, parseVars, pageVars>>

NextKey == process_github_url_call

SpecKey == InitKey /\ [][NextKey]_vars

\* C14: key injectivity.  Two URLs that both start with
\* https://github.com/ and have different tails get different filenames
\* from process_url, so different repositories never share an index key or
\* a digest path.
C14_KeyInjective ==
    (/\ Len(key_outs) = 2
     /\ StartsWith(key_urls[1], HttpsGithub)
     /\ StartsWith(key_urls[2], HttpsGithub)
     /\ DropFirst(key_urls[1], Len(HttpsGithub))
           # DropFirst(key_urls[2], Len(HttpsGithub)))
    => /\ key_outs[1][1] # key_outs[2][1]
       /\ key_outs[1][2] # key_outs[2][2]

\* every "/" of a text replaced by "-"
DashForSlash(t) == [i \in 1..Len(t) |-> IF t[i] = "/" THEN "-" ELSE t[i]]

\* C15: key derivation.  For every URL process_github_url returns the
\* filename made by dropping the first 19 characters, replacing every "/"
\* by "-" and appending ".txt", together with that filename under the
\* directory "data"; "https://github.com/foo/bar" gives "foo-bar.txt".
C15_KeyDerivation ==
    \A i \in 1..Len(key_outs) :
        LET filename == DashForSlash(SubSeq(key_urls[i], 20, Len(key_urls[i])))
                            \o <<".", "t", "x", "t">>
        IN /\ key_outs[i] = <<filename, <<"d", "a", "t", "a", "/">> \o filename>>
           /\ key_urls[i] = UrlFooBar
                 => key_outs[i][1] =
                       <<"f", "o", "o", "-", "b", "a", "r", ".", "t", "x", "t">>

C15_Witness ==
    /\ Len(key_outs) = 2
    /\ key_urls[1] = UrlFooBar
    /\ key_urls[2] = HttpGithub \o <<"a", "/", "a">>
    /\ key_outs[2][1] = <<"-", "a", ".", "t", "x", "t">>

\* ------------------------------------------------------------------------
\* github_api_client.py: _fetch_all_paginated_comments
\* ------------------------------------------------------------------------
\* line 23
MAX_PAGES_TO_FETCH == 50

\* per_page=100 of the request (line 26) and the short-page test (line 46)
PerPage == 100

\* the while condition: page_num <= MAX_PAGES_TO_FETCH in the app copy
\* (line 25), page_num < MAX_PAGES_TO_FETCH in the root copy (line 24)
LoopGuard(c, n) ==
    IF c = RootClient THEN n < MAX_PAGES_TO_FETCH ELSE n <= MAX_PAGES_TO_FETCH

\* What one page request can give: a JSON list of n items, a JSON body that
\* is not a list, or an error (raise_for_status, transport, json decoding)
PageResponses ==
    [kind : {"list"}, n : {0, 1, PerPage - 1, PerPage}]
    \cup [kind : {"dict", "error"}, n : {0}]

\* the items of page number page, in the order of the body
Items(page, r) == [i \in 1..r.n |-> <<page, i>>]

\* the list left by a page that replaces what was fetched before
Extend_Replace(comments, current_page_items) == current_page_items

\* all_comments.extend(current_page_items), line 39
Extend(comments, current_page_items) == comments \o current_page_items

InitPages ==
    /\ IngestIdle
    /\ TreeIdle
    /\ ParseIdle
    /\ KeyIdle
    /\ client \in {AppClient, RootClient}
    /\ page_num = 1
    /\ all_comments = <<>>
    /\ responses = <<>>
    /\ ppc = "while"

\* one pass of the loop body, lines 26-56: a request, then break or
\* page_num += 1
fetch_page ==
    /\ ppc = "while"
    /\ LoopGuard(client, page_num)
    /\ \E r \in PageResponses :
          /\ responses' = Append(responses, r)
          /\ IF r.kind = "list" /\ r.n > 0
             THEN /\ all_comments' = Extend(all_comments, Items(page_num, r))
                  /\ IF r.n < PerPage
                     THEN ppc' = "return" /\ UNCHANGED page_num
                     ELSE page_num' = page_num + 1 /\ UNCHANGED ppc
             ELSE /\ ppc' = "return"
                  /\ UNCHANGED <<all_comments, page_num>>
    /\ UNCHANGED <<client, ingestVars, treeVars, parseVars, keyVars>>

\* the while condition is false: lines 58-62
loop_exit ==
    /\ ppc = "while"
    /\ ~LoopGuard(client, page_num)
    /\ ppc' = "return"
    /\ UNCHANGED <<client, page_num, all_comments, responses>>
    /\ UNCHANGED <<ingestVars, treeVars, parseVars, keyVars>>

NextPages == fetch_page \/ loop_exit

SpecPages == InitPages /\ [][NextPages]_vars

\* the coroutine is awaited to its end: every request returns or raises
SpecPagesFair == SpecPages /\ WF_vars(NextPages)

\* ------------------------------------------------------------------------
\* Retrieval from a repository that is already processed
\* ------------------------------------------------------------------------
\* data/o-r.json before the calls: absent, malformed, or the mapping that
\* _convert_ingested_to_json builds from the digest
LookupJsonInputs ==
    {NoJson, MalformedJson,
     [exists |-> TRUE, wellformed |-> TRUE, content |-> ParseDigest(DigestText)]}

\* o/r is in the processed index and its digest is on disk
InitLookup ==
    /\ dirExists = TRUE
    /\ index = [st |-> "ok", keys |-> {process_github_url(UrlOR)[1]},
                len |-> JsonLen({process_github_url(UrlOR)[1]})]
    /\ digest = [path \in DigestPaths |->
                    IF path = ConvertPath
                    THEN [exists |-> TRUE, content |-> DigestText]
                    ELSE NoFile]
    /\ \E j \in LookupJsonInputs :
          jsonFile = [path \in JsonPaths |->
                         IF path = ConvertJsonPath THEN j ELSE NoJson]
    /\ pc = [p \in Procs |-> "idle"]
    /\ loc = [p \in Procs |-> InitLoc]
    /\ ret = [p \in Procs |-> NoRet]
    /\ calls = 0
    /\ toolRuns = [f \in FileNames |-> 0]
    /\ obs = [p \in Procs |-> [prev2 |-> NoCall, prev |-> NoCall,
                               cur |-> NoCall]]
    /\ touched = [p \in Procs |-> FALSE]
    /\ indexTouched = [p \in Procs |-> FALSE]
    /\ succeeded = {}
    /\ ingestedUrls = {}
    /\ everIn = {process_github_url(UrlOR)[1]}
    /\ racedSave = FALSE
    /\ TreeIdle
    /\ ParseIdle
    /\ KeyIdle
    /\ PageIdle

SpecLookup == InitLookup /\ [][NextSeq]_vars

\* ------------------------------------------------------------------------
\* The two readers of the tree block on one digest file
\* ------------------------------------------------------------------------
\* tree blocks: a plain one, one where a file name holds "=", an empty one
TreeBlocks == {TreeBlock, <<"a", "=", "b", "\n">> \o TreeBlock, <<>>}

ReaderDigests == {tree \o Section(<<"f">>, <<"c", "\n">>) : tree \in TreeBlocks}

\* o/r is in the processed index, its digest is on disk and has not been
\* converted yet
InitReaders ==
    /\ dirExists = TRUE
    /\ index = [st |-> "ok", keys |-> {process_github_url(UrlOR)[1]},
                len |-> JsonLen({process_github_url(UrlOR)[1]})]
    /\ \E d \in ReaderDigests :
          digest = [path \in DigestPaths |->
                       IF path = ConvertPath
                       THEN [exists |-> TRUE, content |-> d]
                       ELSE NoFile]
    /\ jsonFile = [path \in JsonPaths |-> NoJson]
    /\ pc = [p \in Procs |-> "idle"]
    /\ loc = [p \in Procs |-> InitLoc]
    /\ ret = [p \in Procs |-> NoRet]
    /\ calls = 0
    /\ toolRuns = [f \in FileNames |-> 0]
    /\ obs = [p \in Procs |-> [prev2 |-> NoCall, prev |-> NoCall,
                               cur |-> NoCall]]
    /\ touched = [p \in Procs |-> FALSE]
    /\ indexTouched = [p \in Procs |-> FALSE]
    /\ succeeded = {}
    /\ ingestedUrls = {}
    /\ everIn = {process_github_url(UrlOR)[1]}
    /\ racedSave = FALSE
    /\ TreeIdle
    /\ KeyIdle
    /\ PageIdle
    /\ repo_dict = NoDict
    /\ cpc = "start"

NextReaders == NextSeq \/ NextParse

SpecReaders == InitReaders /\ [][NextReaders]_vars

\* ------------------------------------------------------------------------
\* Properties of the ingestion cache
\* ------------------------------------------------------------------------
FileNameOf(repo_url) == process_github_url(repo_url)[1]

DigestPathOf(repo_url) == process_github_url(repo_url)[2]

\* caller p is between calls and its last call was operation op
Returned(p, op) == pc[p] = "idle" /\ obs[p].prev.op = op

IsSuccess(r) == r.kind = "tuple" /\ r.val[1]

\* the last two calls of p were ingest_repo on one URL, the first a success
SecondIngest(p) ==
    /\ Returned(p, "ingest_repo")
    /\ obs[p].prev2.op = "ingest_repo"
    /\ obs[p].prev2.repo_url = obs[p].prev.repo_url
    /\ IsSuccess(obs[p].prev2.ret)

\* the last call of p was an ingest_repo whose tool run ended with exit code 0
IngestExitZero(p) ==
    /\ Returned(p, "ingest_repo")
    /\ obs[p].prev.exited
    /\ obs[p].prev.result.returncode = 0

\* C1: idempotent ingestion.  With calls made one after the other, an
\* ingest_repo call whose tool run exits 0 returns success=true and leaves
\* the key in the processed index and the digest on disk; a second
\* ingest_repo call for the same URL right after a successful one returns
\* (false, "Repository was processed previously.", the same path), does not
\* run the tool and changes neither the digest files nor the index.
C1_IdempotentIngestion ==
    \A p \in Procs :
        /\ IngestExitZero(p) =>
              /\ obs[p].prev.ret =
                    Tuple(<<TRUE, MsgIngested, DigestPathOf(obs[p].prev.repo_url)>>)
              /\ index.st = "ok"
              /\ FileNameOf(obs[p].prev.repo_url) \in index.keys
              /\ digest[DigestPathOf(obs[p].prev.repo_url)].exists
        /\ SecondIngest(p) =>
              /\ obs[p].prev.ret =
                    Tuple(<<FALSE, MsgProcessed, obs[p].prev2.ret.val[3]>>)
              /\ ~obs[p].prev.ran
              /\ ~touched[p]

C1_Witness == \E p \in Procs : SecondIngest(p) /\ obs[p].prev2.result.returncode = 0

\* C2: after ingest_repo has succeeded for a repository the per-file JSON
\* index is persisted, so a later get_a_file_content for a path that has a
\* section in the digest (here "f") returns that file's content.
C2_ReadsServedFromIndex ==
    \A p \in Procs :
        (/\ Returned(p, "get_a_file_content")
         /\ obs[p].prev2.op = "ingest_repo"
         /\ obs[p].prev2.repo_url = obs[p].prev.repo_url
         /\ IsSuccess(obs[p].prev2.ret)
         /\ StripSlashes(obs[p].prev.repo_file_path) = <<"f">>)
        => /\ jsonFile[SplitExtRoot(DigestPathOf(obs[p].prev.repo_url)) \o JsonExt].exists
           /\ obs[p].prev.ret.kind = "str"
           /\ StartsWith(obs[p].prev.ret.val, <<"c", "\n">>)

\* C3: ensure-then-read.  A retrieval call on an unprocessed repository
\* whose triggered ingestion succeeds performs the read in the same call:
\* get_directory_structure returns the tree block, get_a_file_content
\* returns the file content or the not-found text, not a status text.
C3_EnsureThenRead ==
    \A p \in Procs :
        (/\ pc[p] = "idle"
         /\ obs[p].prev.op \in {"get_a_file_content", "get_directory_structure"}
         /\ IsSuccess(obs[p].prev.ing))
        => /\ obs[p].prev.ret.kind = "str"
           /\ obs[p].prev.op = "get_directory_structure"
                 => obs[p].prev.ret.val = TreeBlock
           /\ obs[p].prev.op = "get_a_file_content"
                 => obs[p].prev.ret.val # MsgBeingProcessed

\* C7: ingest_repo and get_a_file_content never raise to their caller.
C7_NeverRaises ==
    \A p \in Procs :
        (pc[p] = "idle" /\ obs[p].prev.op \in {"ingest_repo", "get_a_file_content"})
        => obs[p].prev.ret.kind # "raise"

\* C8: when the external tool exits with a non-zero code, ingest_repo
\* returns (false, message, null) where message is the tool-failure message
\* with the exit code and the first 500 characters of stderr.
C8_ToolFailureResult ==
    \A p \in Procs :
        (/\ Returned(p, "ingest_repo")
         /\ obs[p].prev.exited
         /\ obs[p].prev.result.returncode # 0)
        => obs[p].prev.ret =
              Tuple(<<FALSE,
                      MsgToolFailed(obs[p].prev.result.returncode,
                                    obs[p].prev.result.stderr),
                      None>>)

\* a path without one leading "/" and, after that, without one trailing "/"
OneSlashOff(path) ==
    LET from == IF Len(path) >= 1 /\ path[1] = "/" THEN 2 ELSE 1
        to == IF Len(path) >= from /\ path[Len(path)] = "/"
              THEN Len(path) - 1 ELSE Len(path)
    IN SubSeq(path, from, to)

\* C17: file lookup.  For a processed repository whose JSON index is
\* well-formed, get_a_file_content takes at most one leading and one
\* trailing "/" off the requested path and returns the value stored under
\* that key, or "File not found in this repository." when there is none; a
\* malformed JSON index gives a parse-error text, not an exception.
C17_FileLookup ==
    \A p \in Procs :
        (/\ Returned(p, "get_a_file_content")
         /\ is_valid_repo(obs[p].prev.repo_url)
         /\ obs[p].prev.ing.kind = "none"
         /\ jsonFile[SplitExtRoot(DigestPathOf(obs[p].prev.repo_url))
                        \o JsonExt].exists)
        => LET file == jsonFile[SplitExtRoot(DigestPathOf(obs[p].prev.repo_url))
                                   \o JsonExt]
               key == OneSlashOff(obs[p].prev.repo_file_path)
           IN /\ obs[p].prev.ret.kind = "str"
              /\ file.wellformed =>
                    obs[p].prev.ret.val =
                        IF key \in DOMAIN file.content THEN file.content[key]
                        ELSE <<"File not found in this repository.">>
              /\ ~file.wellformed =>
                    StartsWith(obs[p].prev.ret.val,
                               <<"Error parsing JSON file: ">>)

\* "//f/" looked up in an index that holds "f": one slash comes off either
\* end and the key "/f" is not found
C17_Witness ==
    \E p \in Procs :
        /\ Returned(p, "get_a_file_content")
        /\ obs[p].prev.ing.kind = "none"
        /\ obs[p].prev.repo_file_path = <<"/", "/", "f", "/">>
        /\ jsonFile[ConvertJsonPath].exists
        /\ jsonFile[ConvertJsonPath].wellformed
        /\ obs[p].prev.ret.val = <<"File not found in this repository.">>
        /\ obs[p].prev2.repo_file_path = <<"/", "f", "/">>
        /\ obs[p].prev2.ret.val = <<"c", "\n">>

\* the last call of p was an ingest_repo whose tool run ended with an exit
\* code other than 0
IngestExitNonZero(p) ==
    /\ Returned(p, "ingest_repo")
    /\ obs[p].prev.exited
    /\ obs[p].prev.result.returncode # 0

\* C19: failed ingestion leaves no trace.  With calls made one after the
\* other, after an ingest_repo call whose tool run exited non-zero there is
\* no digest file at the derived output path and the processed index has
\* not been written during the call.
C19_FailureLeavesNoTrace ==
    \A p \in Procs :
        IngestExitNonZero(p) =>
            /\ ~digest[DigestPathOf(obs[p].prev.repo_url)].exists
            /\ ~indexTouched[p]

\* a failed run that had written part of the digest, after a success for
\* the other repository
C19_Witness ==
    \E p \in Procs :
        /\ IngestExitNonZero(p)
        /\ touched[p]
        /\ obs[p].prev.ret = Tuple(<<FALSE, MsgUnexpected(UnboundLocalError)>>)
        /\ index.st = "ok"
        /\ index.keys # {}

\* C9 as stated: in every execution, interleaved ingestions included, every
\* ingest_repo call that returned success has its key in the index
\* afterwards and no key once present is removed (read whenever the index
\* file is completely written).
C9_IndexOnlyGrows ==
    index.st = "ok" => (succeeded \cup everIn) \subseteq index.keys

\* C9 amended: as long as no save_to_json has read the index between
\* another save_to_json's read and write, every ingest_repo call that
\* returned success has its key in the index, and no key once present has
\* been removed, whenever the index file is completely written.
C9_IndexGrowsWithoutRacedSave ==
    (~racedSave /\ index.st = "ok") => (succeeded \cup everIn) \subseteq index.keys

C9_Witness ==
    /\ ~racedSave
    /\ index.st = "ok"
    /\ succeeded = FileNames
    /\ \A p \in Procs : obs[p].prev.op = "ingest_repo" /\ IsSuccess(obs[p].prev.ret)

PassCheck(p) == ingest_repo(p) /\ pc'[p] = "run_gitingest"

\* C10: duplicate-ingestion race.  While one ingest_repo call is past the
\* check for an unprocessed repository and has not marked it, a second call
\* for the same repository can pass the check too: nothing in ingest_repo
\* stops it, so the tool can run twice for one key on one output path.
C10_NothingPreventsDuplicate ==
    \A p \in Procs, q \in Procs :
        (/\ p # q
         /\ pc[p] = "ingest_repo"
         /\ is_valid_repo(loc[p].repo_url)
         /\ PastCheck(q)
         /\ loc[q].output_filename = FileNameOf(loc[p].repo_url)
         /\ index.st \in {"absent", "ok"}
         /\ loc[q].output_filename \notin index.keys)
        => ENABLED PassCheck(p)

\* both callers passed the check before either marked the repository, and
\* both tool runs are under way on the same output path
C10_Witness ==
    \E p \in Procs, q \in Procs :
        /\ p # q
        /\ pc[p] = "subprocess"
        /\ pc[q] = "subprocess"
        /\ loc[p].output_path = loc[q].output_path
        /\ toolRuns[loc[p].output_filename] = 2
        /\ loc[p].output_filename \notin index.keys

\* ------------------------------------------------------------------------
\* format_github_tree_structure as a state machine
\* ------------------------------------------------------------------------
InitTree ==
    /\ IngestIdle
    /\ ParseIdle
    /\ KeyIdle
    /\ PageIdle
    /\ flat_tree_list \in ListsUpTo(MaxEntries) \cup {ExampleEntries}
    /\ max_depth \in Depths
    /\ hierarchical_tree = EmptyDict
    /\ text = <<>>
    /\ tpc = "start"

\* lines 102-103
format_empty ==
    /\ tpc = "start"
    /\ flat_tree_list = <<>>
    /\ text' = format_github_tree_structure(flat_tree_list, RepoName, max_depth)
    /\ tpc' = "done"
    /\ UNCHANGED <<flat_tree_list, max_depth, hierarchical_tree>>
    /\ UNCHANGED nonTreeVars

\* line 105
build_tree ==
    /\ tpc = "start"
    /\ flat_tree_list # <<>>
    /\ hierarchical_tree' = _build_hierarchical_tree(flat_tree_list)
    /\ tpc' = "built"
    /\ UNCHANGED <<flat_tree_list, max_depth, text>>
    /\ UNCHANGED nonTreeVars

\* lines 107-131
format_tree ==
    /\ tpc = "built"
    /\ text' = format_github_tree_structure(flat_tree_list, RepoName, max_depth)
    /\ tpc' = "done"
    /\ UNCHANGED <<flat_tree_list, max_depth, hierarchical_tree>>
    /\ UNCHANGED nonTreeVars

NextTree == format_empty \/ build_tree \/ format_tree

SpecTree == InitTree /\ [][NextTree]_vars


\* ------------------------------------------------------------------------
\* Properties of the tree builder and renderer
\* ------------------------------------------------------------------------
\* number of nodes nested at most d levels below tree_node
RECURSIVE NodesWithin(_, _, _)
NodesWithin(tree_node, names, d) ==
    IF d <= 0 \/ names = {} THEN 0
    ELSE LET n == CHOOSE x \in names : TRUE
             below == IF "children" \in DOMAIN tree_node[n]
                      THEN NodesWithin(tree_node[n].children,
                                       DOMAIN tree_node[n].children, d - 1)
                      ELSE 0
         IN 1 + below + NodesWithin(tree_node, names \ {n}, d)

LinesOf(t) == Split(t, "\n")

\* C4: depth semantics.  For a non-empty entry list, max_depth = d >= 1
\* renders the header, the root line and exactly the nodes nested at most
\* d levels below the root (d = 1: the root's direct children).
C4_DepthSemantics ==
    (/\ tpc = "done"
     /\ flat_tree_list # <<>>
     /\ max_depth # NoDepth
     /\ max_depth[1] >= 1)
    => Len(LinesOf(text))
          = 2 + NodesWithin(hierarchical_tree, DOMAIN hierarchical_tree,
                            max_depth[1])

DistinctPaths(list) ==
    \A i \in 1..Len(list), j \in 1..Len(list) :
        i # j => list[i].path # list[j].path

Permuted(list, f) == [i \in 1..Len(list) |-> list[f[i]]]

\* an entry whose path is a directory prefix of another entry's path is a
\* tree entry, as in a listing of a real repository
DirsAreTrees(list) ==
    \A i \in 1..Len(list), j \in 1..Len(list) :
        StartsWith(list[j].path, list[i].path \o <<"/">>)
            => list[i].type = "tree"

\* C5: order independence.  Every permutation of an entry list (of distinct
\* paths, one of which may be a directory entry with files under it)
\* renders to the same text for the same max_depth and display name.
C5_OrderIndependent ==
    (/\ tpc = "done"
     /\ flat_tree_list # <<>>
     /\ DistinctPaths(flat_tree_list)
     /\ DirsAreTrees(flat_tree_list))
    => \A f \in Permutations(1..Len(flat_tree_list)) :
           format_github_tree_structure(Permuted(flat_tree_list, f), RepoName,
                                        max_depth) = text

Missing == [_type |-> "missing"]

\* the node of the tree at a path given by its parts, Missing if none
RECURSIVE NodeAt(_, _)
NodeAt(level, parts) ==
    IF parts = <<>> \/ Head(parts) \notin DOMAIN level THEN Missing
    ELSE IF Len(parts) = 1 THEN level[Head(parts)]
    ELSE IF "children" \notin DOMAIN level[Head(parts)] THEN Missing
    ELSE NodeAt(level[Head(parts)].children, Tail(parts))

\* C6: type-conflict upgrade.  After _build_hierarchical_tree, every proper
\* prefix of an entry's path is a tree-kind node with children that holds
\* the entry beneath it, whatever the order of the entries.
C6_TypeConflictUpgrade ==
    tpc \in {"built", "done"} =>
        \A i \in 1..Len(flat_tree_list) :
            LET parts == Split(flat_tree_list[i].path, "/")
            IN \A k \in 1..(Len(parts) - 1) :
                  /\ NodeAt(hierarchical_tree, SubSeq(parts, 1, k))._type = "tree"
                  /\ "children" \in DOMAIN NodeAt(hierarchical_tree,
                                                  SubSeq(parts, 1, k))
                  /\ NodeAt(hierarchical_tree, parts) # Missing

\* position in a line of its connector, 0 when it has none
ConnectorAt(line) ==
    LET hits == {k \in 1..Len(line) : line[k] \in {BoxUpRight, BoxVerticalRight}}
    IN IF hits = {} THEN 0 ELSE CHOOSE k \in hits : \A h \in hits : k <= h

\* nesting level of a rendered line: 0 for the root line
LevelOf(line) == (ConnectorAt(line) - 1) \div Len(Indent)

\* the name a rendered line shows, without the "/" of a directory
NameOf(line) ==
    LET shown == DropFirst(line, ConnectorAt(line) + Len(LastConnector) - 1)
    IN IF EndsWith(shown, <<"/">>) THEN SubSeq(shown, 1, Len(shown) - 1)
       ELSE shown

\* lines i < j show children of one node
Siblings(lines, i, j) ==
    /\ i < j
    /\ ConnectorAt(lines[i]) # 0
    /\ ConnectorAt(lines[j]) # 0
    /\ LevelOf(lines[i]) = LevelOf(lines[j])
    /\ \A k \in (i + 1)..(j - 1) :
          ConnectorAt(lines[k]) # 0 /\ LevelOf(lines[k]) >= LevelOf(lines[i])

ExampleLines ==
    <<Header,
      LastConnector \o <<"o", "/", "r", "/">>,
      Indent \o MidConnector \o <<"a", "/">>,
      Indent \o BarIndent \o LastConnector \o <<"x", ".", "t", "x", "t">>,
      Indent \o LastConnector \o <<"b", ".", "t", "x", "t">>>>

C13_RootOnly ==
    (/\ tpc = "done"
     /\ flat_tree_list # <<>>
     /\ max_depth # NoDepth
     /\ max_depth[1] <= 0)
    => LinesOf(text) = <<Header, LastConnector \o <<"o", "/", "r", "/">>>>

\* a list with nested entries rendered with max_depth = 0
C13_Witness ==
    /\ tpc = "done"
    /\ Len(flat_tree_list) >= 2
    /\ \E i \in 1..Len(flat_tree_list) :
          flat_tree_list[i].path = <<"x", "/", "y", "/", "z">>
    /\ max_depth = <<0>>
    /\ Len(LinesOf(text)) = 2

\* C16: empty input.  For an empty entry list and any max_depth (none,
\* zero, negative or positive) the result is exactly the header line, the
\* root line of the display name and the placeholder line.
C16_EmptyInput ==
    (tpc = "done" /\ flat_tree_list = <<>>)
    => LinesOf(text) =
          <<Header,
            LastConnector \o <<"o", "/", "r", "/">>,
            <<" ", " ", " ", " ",
              "(Repository is empty or tree data not available)">>>>

C16_Witness ==
    /\ tpc = "done"
    /\ flat_tree_list = <<>>
    /\ max_depth = <<-1>>
    /\ Len(LinesOf(text)) = 3

\* every node at or below a level is tree-kind exactly when it has a
\* children mapping
RECURSIVE KindsMatchChildren(_)
KindsMatchChildren(level) ==
    \A name \in DOMAIN level :
        /\ (level[name]._type = "tree") <=> ("children" \in DOMAIN level[name])
        /\ "children" \in DOMAIN level[name]
              => KindsMatchChildren(level[name].children)

\* C18: TreeNode kind invariant.  In the structure built from entries of
\* type blob or tree, a node has kind "tree" if and only if it has a
\* children mapping, a directory listed only as its own entry included.
C18_TreeKindIffChildren ==
    tpc \in {"built", "done"} => KindsMatchChildren(hierarchical_tree)

\* the mapping of siblings in which the last name of a path of names is a
\* key
RECURSIVE LevelHolding(_, _)
LevelHolding(level, path) ==
    IF Len(path) = 1 THEN level
    ELSE LevelHolding(level[Head(path)].children, Tail(path))

\* every path of names from the root to a node of the tree
RECURSIVE PathsIn(_)
PathsIn(level) ==
    UNION {{<<n>>} \cup
              (IF "children" \in DOMAIN level[n]
               THEN {<<n>> \o q : q \in PathsIn(level[n].children)}
               ELSE {}) : n \in DOMAIN level}

\* the node is the last of its siblings in sorted order
IsLastSibling(level, name) ==
    \A other \in (DOMAIN level) \ {name} : StrLess(other, name)

\* the columns of the proper ancestors of the node at path, outermost first,
\* from ancestor i on
RECURSIVE AncestorColumns(_, _, _)
AncestorColumns(tree, path, i) ==
    IF i >= Len(path) THEN <<>>
    ELSE (IF IsLastSibling(LevelHolding(tree, SubSeq(path, 1, i)), path[i])
          THEN Indent ELSE BarIndent)
            \o AncestorColumns(tree, path, i + 1)

\* the line the format gives the node at path
ExpectedLine(tree, path) ==
    LET level == LevelHolding(tree, path)
        name == path[Len(path)]
    IN Indent \o AncestorColumns(tree, path, 1)
          \o (IF IsLastSibling(level, name) THEN LastConnector
              ELSE MidConnector)
          \o name
          \o (IF ItemGet(level[name], "_type", "") = "tree" THEN <<"/">>
              ELSE <<>>)

\* C22: rendered line format.  Every rendered child line is the line of a
\* node of the tree: the four-space root indent, then for each proper
\* ancestor, outermost first, four spaces if the ancestor was the last of
\* its siblings and the vertical bar with three spaces otherwise, then the
\* last-child connector if the node is the last of its siblings in sorted
\* order and the mid connector otherwise, then the name, then "/" if and
\* only if the node is tree-kind.
C22_LineFormat ==
    (tpc = "done" /\ flat_tree_list # <<>>)
    => \A i \in 3..Len(LinesOf(text)) :
          \E path \in PathsIn(hierarchical_tree) :
              LinesOf(text)[i] = ExpectedLine(hierarchical_tree, path)

\* x.txt below the directory a, which is not the last of its siblings
C22_Witness ==
    /\ tpc = "done"
    /\ flat_tree_list = ExampleEntries
    /\ max_depth = NoDepth
    /\ Len(LinesOf(text)) = 5
    /\ LinesOf(text)[4] =
          Indent \o BarIndent \o LastConnector \o <<"x", ".", "t", "x", "t">>

\* the items of the first k responses, in order
RECURSIVE ItemsOfFirst(_, _)
ItemsOfFirst(resps, k) ==
    IF k = 0 THEN <<>>
    ELSE ItemsOfFirst(resps, k - 1)
            \o (IF resps[k].kind = "list" THEN Items(k, resps[k]) ELSE <<>>)

\* an empty page, a short page, a body that is not a list, or an error
StopsPaging(r) == r.kind # "list" \/ r.n < PerPage

\* at most MAX_PAGES_TO_FETCH requests, none after a response that stops
\* the paging, and what is returned is the in-order concatenation of the
\* items of every page received
PagingSafe ==
    /\ Len(responses) <= MAX_PAGES_TO_FETCH
    /\ \A k \in 1..(Len(responses) - 1) : ~StopsPaging(responses[k])
    /\ ppc = "return" =>
          /\ all_comments = ItemsOfFirst(responses, Len(responses))
          /\ \/ responses # <<>> /\ StopsPaging(responses[Len(responses)])
             \/ Len(responses) = IF client = RootClient
                                 THEN MAX_PAGES_TO_FETCH - 1
                                 ELSE MAX_PAGES_TO_FETCH

C24_IndexedKeyHasDigest ==
    \A u \in ValidUrls :
        (index.st = "ok" /\ FileNameOf(u) \in index.keys)
            => digest[DigestPathOf(u)].exists

\* C25: across any sequence of ingest_repo calls on URLs that start with
\* https://github.com/, a call for URL u returns "Repository was processed
\* previously." only if an earlier ingest_repo call for the same URL u
\* succeeded: a repository that was never ingested is not reported as
\* processed, nor given another repository's digest path.
C25_ProcessedOnlyAfterOwnSuccess ==
    \A p \in Procs :
        (/\ Returned(p, "ingest_repo")
         /\ StartsWith(obs[p].prev.repo_url, HttpsGithub)
         /\ obs[p].prev.ret.kind = "tuple"
         /\ obs[p].prev.ret.val[2] = MsgProcessed)
        => obs[p].prev.repo_url \in ingestedUrls

\* the non-empty prefixes, cut at "/", of the paths of a list of entries
PathPrefixes(list) ==
    UNION {LET parts == Split(list[i].path, "/")
           IN {Join(SubSeq(parts, 1, k), <<"/">>) : k \in 1..Len(parts)} :
           i \in 1..Len(list)}

\* C26: rendering completeness.  For any non-empty list of entries with
\* distinct paths that have no empty segment, rendering with max_depth =
\* null emits one line for every entry and for every directory prefix of
\* an entry: the line count is 2 plus the number of distinct non-empty path
\* prefixes, whatever the order of the entries.
C26_OneLinePerPrefix ==
    (/\ tpc = "done"
     /\ max_depth = NoDepth
     /\ flat_tree_list # <<>>
     /\ DistinctPaths(flat_tree_list))
    => Len(LinesOf(text)) = 2 + Cardinality(PathPrefixes(flat_tree_list))

\* the last two calls of p were ingest_repo calls for one URL and the tool
\* run of the first one exited with a code other than 0
RetryAfterFailure(p) ==
    /\ Returned(p, "ingest_repo")
    /\ obs[p].prev2.op = "ingest_repo"
    /\ obs[p].prev2.repo_url = obs[p].prev.repo_url
    /\ obs[p].prev2.exited
    /\ obs[p].prev2.result.returncode # 0

\* C27: failure is not cached.  With calls made one after the other, after
\* an ingest_repo call whose tool run failed the repository is not in the
\* processed index, and the next ingest_repo call for the same URL runs
\* the tool again and, if that run exits 0, returns success and leaves the
\* repository marked as processed.
C27_FailureNotCached ==
    \A p \in Procs :
        /\ IngestExitNonZero(p) =>
              FileNameOf(obs[p].prev.repo_url) \notin index.keys
        /\ RetryAfterFailure(p) =>
              /\ obs[p].prev.ran
              /\ (obs[p].prev.exited /\ obs[p].prev.result.returncode = 0) =>
                    /\ obs[p].prev.ret =
                          Tuple(<<TRUE, MsgIngested,
                                  DigestPathOf(obs[p].prev.repo_url)>>)
                    /\ index.st = "ok"
                    /\ FileNameOf(obs[p].prev.repo_url) \in index.keys

\* a failed run followed by a successful one for the same URL
C27_Witness ==
    \E p \in Procs :
        /\ RetryAfterFailure(p)
        /\ obs[p].prev.exited
        /\ obs[p].prev.result.returncode = 0
        /\ IsSuccess(obs[p].prev.ret)
        /\ toolRuns[FileNameOf(obs[p].prev.repo_url)] = 2

\* the text of a digest that precedes its first marker line
RECURSIVE BeforeFirstMarker(_)
BeforeFirstMarker(content) ==
    LET line == ReadLine(content)
    IN IF line = <<>> \/ line = marker \o <<"\n">> THEN <<>>
       ELSE line \o BeforeFirstMarker(DropFirst(content, Len(line)))

\* C28: for every digest that contains at least one marker line, the
\* mapping returned by _convert_ingested_to_json holds under the key
\* "directory_tree" exactly the text that precedes the first marker line
\* (no later section, such as one whose path line is blank, overwrites it),
\* and no key of the mapping is the empty string.
C28_DirectoryTreeKept ==
    (/\ cpc = "done"
     /\ repo_dict.kind = "dict"
     /\ Contains(digest[ConvertPath].content, marker \o <<"\n">>))
    => /\ DirectoryTreeKey \in DOMAIN repo_dict.val
       /\ repo_dict.val[DirectoryTreeKey] =
             BeforeFirstMarker(digest[ConvertPath].content)
       /\ <<>> \notin DOMAIN repo_dict.val

\* C29: the two readers of the tree block agree.  For the digest file of a
\* processed repository, get_directory_structure returns the same text as
\* the "directory_tree" entry that _convert_ingested_to_json derives from
\* that file, a line of the tree block that holds "=" included.
C29_ReadersAgree ==
    \A p \in Procs :
        (/\ Returned(p, "get_directory_structure")
         /\ obs[p].prev.repo_url = UrlOR
         /\ cpc = "done"
         /\ repo_dict.kind = "dict")
        => /\ obs[p].prev.ret.kind = "str"
           /\ DirectoryTreeKey \in DOMAIN repo_dict.val
           /\ obs[p].prev.ret.val = repo_dict.val[DirectoryTreeKey]

\* the lines of a, in order, are among the lines of b
RECURSIVE IsSubsequence(_, _)
IsSubsequence(a, b) ==
    IF a = <<>> THEN TRUE
    ELSE IF b = <<>> THEN FALSE
    ELSE IF Head(a) = Head(b) THEN IsSubsequence(Tail(a), Tail(b))
    ELSE IsSubsequence(a, Tail(b))

\* the deepest nesting level of a tree, the children of the root being at
\* level 0
DeepestLevel(tree) ==
    LET levels == {Len(path) - 1 : path \in PathsIn(tree)}
    IN CHOOSE l \in levels : \A other \in levels : other <= l

\* C30: depth monotonicity.  For a fixed non-empty entry list and every
\* d >= 0, the lines rendered with max_depth = d are a subsequence of the
\* lines rendered with max_depth = d + 1, and once d exceeds the deepest
\* nesting level of the tree the output equals the output for
\* max_depth = null.
C30_DepthMonotone ==
    (/\ tpc = "done"
     /\ flat_tree_list # <<>>
     /\ max_depth # NoDepth
     /\ max_depth[1] >= 0)
    => /\ IsSubsequence(LinesOf(text),
                        FormatLines(flat_tree_list, RepoName,
                                    <<max_depth[1] + 1>>))
       /\ max_depth[1] > DeepestLevel(hierarchical_tree) =>
             LinesOf(text) = FormatLines(flat_tree_list, RepoName, NoDepth)

\* a key that no completely written index has held yet enters the index
\* only in the final write of an ingest_repo call for that key whose tool
\* run exited with code 0
OnlyExitZeroAddsKey ==
    \A k \in index'.keys \ everIn :
        \E p \in Procs :
            /\ pc[p] = "write"
            /\ loc[p].op = "ingest_repo"
            /\ loc[p].output_filename = k
            /\ obs[p].cur.exited
            /\ loc[p].result.returncode = 0

\* the step of p from the exit-code test to the index update
AfterExitZero(p) == pc[p] = "returncode" /\ pc'[p] = "save_to_json"

\* that step appends the heading and the whole stdout text from the first
\* "Repository:" onward to the digest file
AppendsWholeSummary(p) ==
    LET stdout_content == loc[p].result.stdout
        at == Find(stdout_content, SummaryMarker)
        path == loc[p].output_path
    IN /\ at # -1
       /\ digest'[path].content =
             digest[path].content \o SummaryHeading
                 \o DropFirst(stdout_content, at)

\* that step appends the heading and the trimmed stdout text from the first
\* "Repository:" onward when stdout holds one, and nothing otherwise
AppendsTrimmedSummary(p) ==
    LET stdout_content == loc[p].result.stdout
        at == Find(stdout_content, SummaryMarker)
        path == loc[p].output_path
    IN digest'[path].content =
          IF at = -1 THEN digest[path].content
          ELSE digest[path].content \o SummaryHeading
                   \o Strip(DropFirst(stdout_content, at))

\* the step in which an ingest_repo call of p whose tool run exited with
\* code 0 returns
ReturnsAfterExitZero(p) ==
    /\ pc[p] # "idle"
    /\ pc'[p] = "idle"
    /\ loc[p].op = "ingest_repo"
    /\ obs[p].cur.exited
    /\ loc[p].result.returncode = 0

\* that step returns the success triple and leaves the key in a completely
\* written index
MarksAndReturnsSuccess(p) ==
    /\ ret'[p] = Tuple(<<TRUE, MsgIngested, DigestPathOf(loc[p].repo_url)>>)
    /\ index'.st = "ok"
    /\ FileNameOf(loc[p].repo_url) \in index'.keys

\* the last call of p ran the tool to exit code 0, returned the success
\* triple, and a completely written index has held its key
MarkedAndReturnedSuccess(p) ==
    /\ obs[p].prev.ret =
          Tuple(<<TRUE, MsgIngested, DigestPathOf(obs[p].prev.repo_url)>>)
    /\ FileNameOf(obs[p].prev.repo_url) \in everIn

\* C20 as stated: a key is added to the processed index exactly by
\* ingest_repo calls whose tool run exited with code 0; every such call
\* appends the stdout text from the first "Repository:" onward under the
\* "--- Summary ---" heading, marks the key and returns
\* (true, "Repository ingested successfully.", path), and nothing else adds
\* a key.
C20_ExitZeroMarks ==
    [][/\ \A p \in Procs : ReturnsAfterExitZero(p) => MarksAndReturnsSuccess(p)
       /\ OnlyExitZeroAddsKey
       /\ \A p \in Procs : AfterExitZero(p) => AppendsWholeSummary(p)]_vars

\* C20, amended: as long as no two index updates overlap, every ingest_repo
\* call whose tool run exited with code 0 marks the key and returns the
\* success triple, after appending the heading and the whitespace-trimmed
\* stdout text from the first "Repository:" onward when stdout holds that
\* marker (nothing is appended when it does not); no other path of any
\* operation adds a key.
C20_ExitZeroMarksTrimmed ==
    [][/\ \A p \in Procs :
            (ReturnsAfterExitZero(p) /\ ~racedSave')
                => MarksAndReturnsSuccess(p)
       /\ OnlyExitZeroAddsKey
       /\ \A p \in Procs : AfterExitZero(p) => AppendsTrimmedSummary(p)]_vars

\* two successful ingestions, one after the other's index update, each with
\* its key in the index and one of them with the trimmed summary in its
\* digest
C20_Witness ==
    /\ ~racedSave
    /\ index.st = "ok"
    /\ index.keys = FileNames
    /\ \A p \in Procs : IngestExitZero(p) /\ MarkedAndReturnedSuccess(p)
    /\ \E p \in Procs :
          EndsWith(digest[DigestPathOf(obs[p].prev.repo_url)].content,
                   SummaryHeading \o <<"Repository:", " ", "o">>)

====
